---- MODULE Spec2Model ----
(***************************************************************************)
(* State-machine model of the ClickChart component                         *)
(* (src/components/ClickChart.tsx): the nine useState hooks, the ticker    *)
(* effect that owns the setInterval timer, the estimator effect, and the   *)
(* event handlers of the control surface.                                  *)
(*                                                                         *)
(* Numbers.  A JavaScript number is modelled as an exact rational          *)
(* [t |-> "num", n, d] in lowest terms (d > 0), or as NaN; a nullable      *)
(* number may also be null.  IEEE-754 rounding of the doubles is not       *)
(* modelled: 0.1 is the rational 1/10.                                     *)
(*                                                                         *)
(* Atomicity.  An action is one browser task: the event handler or timer   *)
(* callback, the re-render its setState calls cause, and the effects of    *)
(* that render (cleanup of the previous effect, then the new effect body). *)
(* Wall-clock time advances between tasks by the action Elapse.            *)
(***************************************************************************)
EXTENDS Integers, Sequences, FiniteSets, TLC

\* ------------------------------------------------------------------ bounds
MaxTicks == 3      \* ticks fired in one behaviour
MaxOps   == 3      \* control-surface events in one behaviour from the mount
MaxSessionOps == 2 \* control-surface events in one behaviour from a session under way
Quantum  == 500    \* largest wall-clock step (ms) of one Elapse

\* ------------------------------------------------------ JavaScript numbers
null == [t |-> "null", n |-> 0, d |-> 1]
NaN  == [t |-> "NaN",  n |-> 0, d |-> 1]

Abs(x) == IF x < 0 THEN -x ELSE x

Min(a, b) == IF a < b THEN a ELSE b

RECURSIVE GCD(_, _)
GCD(a, b) == IF b = 0 THEN a ELSE GCD(b, a % b)

\* the rational n/d (d # 0) in lowest terms with a positive denominator
Frac(n, d) ==
    LET g == GCD(Abs(n), Abs(d))
        s == IF d < 0 THEN -1 ELSE 1
    IN  [t |-> "num", n |-> (s * n) \div g, d |-> (s * d) \div g]

Num(n) == [t |-> "num", n |-> n, d |-> 1]

IsNum(x) == x.t = "num"

\* a + b
JsAdd(a, b) ==
    IF IsNum(a) /\ IsNum(b)
    THEN LET g == GCD(a.d, b.d)
         IN  Frac(a.n * (b.d \div g) + b.n * (a.d \div g), a.d * (b.d \div g))
    ELSE NaN

\* a - b
JsSub(a, b) == IF IsNum(b) THEN JsAdd(a, Frac(-b.n, b.d)) ELSE NaN

\* a * b
JsMul(a, b) ==
    IF IsNum(a) /\ IsNum(b)
    THEN LET x == Frac(a.n, b.d)
             y == Frac(b.n, a.d)
         IN  Frac(x.n * y.n, x.d * y.d)
    ELSE NaN

\* a / b, used by the program with a non-zero divisor only
JsDiv(a, b) ==
    IF IsNum(a) /\ IsNum(b) /\ b.n # 0
    THEN JsMul(a, Frac(b.d, b.n))
    ELSE NaN

\* a > b: false when either side is NaN
JsGT(a, b) ==
    /\ IsNum(a)
    /\ IsNum(b)
    /\ LET g == GCD(a.d, b.d) IN a.n * (b.d \div g) > b.n * (a.d \div g)

\* Math.max(a, b): NaN when either side is NaN
MathMax(a, b) ==
    IF IsNum(a) /\ IsNum(b) THEN (IF JsGT(b, a) THEN b ELSE a) ELSE NaN

\* Math.round(x): the nearest integer, halves rounded towards +infinity
MathRound(x) ==
    IF IsNum(x) THEN Num((2 * x.n + x.d) \div (2 * x.d)) ELSE NaN

\* ------------------------------------------- parseInt / parseFloat of text
\* The text of an <input type="number"> is a sequence of characters; the
\* browser hands "" to the handler when the field holds no valid number.
DigitChars == <<"0", "1", "2", "3", "4", "5", "6", "7", "8", "9">>

IsDigit(c) == \E i \in 1..10 : DigitChars[i] = c

DigitVal(c) == (CHOOSE i \in 1..10 : DigitChars[i] = c) - 1

\* index just past the run of digits of s that starts at index i
RECURSIVE DigitsEnd(_, _)
DigitsEnd(s, i) ==
    IF i <= Len(s) /\ IsDigit(s[i]) THEN DigitsEnd(s, i + 1) ELSE i

\* value of the digits s[i..j-1] read as a decimal integer
RECURSIVE DigitsVal(_, _, _)
DigitsVal(s, i, j) ==
    IF j <= i THEN 0 ELSE 10 * DigitsVal(s, i, j - 1) + DigitVal(s[j - 1])

RECURSIVE Pow10(_)
Pow10(k) == IF k = 0 THEN 1 ELSE 10 * Pow10(k - 1)

\* parseInt(s): optional sign, then the longest prefix of digits; NaN if none
parseInt(s) ==
    LET neg   == Len(s) >= 1 /\ s[1] = "-"
        start == IF Len(s) >= 1 /\ s[1] \in {"-", "+"} THEN 2 ELSE 1
        stop  == DigitsEnd(s, start)
    IN  IF stop = start THEN NaN
        ELSE Num((IF neg THEN -1 ELSE 1) * DigitsVal(s, start, stop))

\* parseFloat(s): optional sign, digits, optional "." and digits; NaN if
\* there is no digit at all
parseFloat(s) ==
    LET neg    == Len(s) >= 1 /\ s[1] = "-"
        start  == IF Len(s) >= 1 /\ s[1] \in {"-", "+"} THEN 2 ELSE 1
        intEnd == DigitsEnd(s, start)
        hasDot == intEnd <= Len(s) /\ s[intEnd] = "."
        fEnd   == IF hasDot THEN DigitsEnd(s, intEnd + 1) ELSE intEnd
        nFrac  == IF hasDot THEN fEnd - (intEnd + 1) ELSE 0
        mant   == DigitsVal(s, start, intEnd) * Pow10(nFrac)
                    + (IF hasDot THEN DigitsVal(s, intEnd + 1, fEnd) ELSE 0)
    IN  IF intEnd = start /\ nFrac = 0 THEN NaN
        ELSE Frac((IF neg THEN -1 ELSE 1) * mant, Pow10(nFrac))

\* texts typed into the target-time field (minutes)
TargetTexts == { <<>>, <<"0">>, <<"1">>, <<"-", "2">> }

\* texts typed into the reference-speed field (mi/h)
ReferenceTexts == { <<>>, <<"0">>, <<"5">>, <<"4", ".", "9">>, <<"-", "1">> }

\* ------------------------------------------------------------------ state
VARIABLES
    isRunning,        \* useState(false)
    speed,            \* useState(5.0), mi/h
    referenceSpeed,   \* useState(6.0), mi/h
    time,             \* useState(0), elapsed seconds
    distance,         \* useState(0), cumulative miles
    chartData,        \* useState([{time: 0, distance: 0, reference: 0}])
    catchUpTime,      \* useState(null)
    targetTime,       \* useState(3600), seconds
    requiredSpeed,    \* useState(null)
    timers,           \* the live setInterval timers: time left and closure
    interval,         \* handle held by the ticker effect: index in timers, 0 = undefined
    tickerDeps,       \* dependency values of the last run of the ticker effect
    estimatorDeps,    \* dependency values of the last run of the estimator effect
    tickLog,          \* history: for each tick, the speeds in effect, the running
                      \* period and the catch-up estimate stored after it
    runs,             \* history: number of starts so far
    sinceTick,        \* history: wall-clock ms spent running since the last tick or start
    pendingAtStop,    \* history: the last stop was issued while a timer firing was due
    opsLeft           \* bound: number of control events still allowed

hooks == <<isRunning, speed, referenceSpeed, time, distance, chartData,
           catchUpTime, targetTime, requiredSpeed>>

vars == <<isRunning, speed, referenceSpeed, time, distance, chartData,
          catchUpTime, targetTime, requiredSpeed, timers, interval,
          tickerDeps, estimatorDeps, tickLog, runs, sinceTick, pendingAtStop, opsLeft>>

\* period of the repeating timer, ms
IntervalMs == 1000

\* seconds per hour, the divisor of the per-tick distance
SecondsPerHour == 3600

\* the state the render closes over
State ==
    [isRunning |-> isRunning, speed |-> speed, referenceSpeed |-> referenceSpeed,
     time |-> time, distance |-> distance, chartData |-> chartData,
     targetTime |-> targetTime]

Last(seq) == seq[Len(seq)]

RemoveAt(seq, i) == [k \in 1..(Len(seq) - 1) |-> IF k < i THEN seq[k] ELSE seq[k + 1]]

\* ---------------------------------------------------------- ticker effect
\* variant: speed left out of the dependency list
TickerDepsNoSpeed(s) == <<s.isRunning, s.time, s.distance, s.referenceSpeed>>

\* variant: time and distance left out of the dependency list
TickerDepsNoProgress(s) == <<s.isRunning, s.speed, s.referenceSpeed>>

\* variant: referenceSpeed left out of the dependency list
TickerDepsNoReference(s) == <<s.isRunning, s.speed, s.time, s.distance>>

\* dependency list of the ticker effect
TickerDeps(s) == <<s.isRunning, s.speed, s.time, s.distance, s.referenceSpeed>>

\* setInterval(callback, 1000): a timer holding the values the callback closes over
setInterval(s) ==
    [left |-> IntervalMs, speed |-> s.speed, time |-> s.time,
     distance |-> s.distance, referenceSpeed |-> s.referenceSpeed]

\* variant: the effect returns no cleanup
TickerCleanupNone(tm, h) == tm

\* the effect's cleanup: if (interval) clearInterval(interval)
TickerCleanup(tm, h) == IF h # 0 THEN RemoveAt(tm, h) ELSE tm

\* one run of the ticker effect for render state s: cleanup of the previous
\* run, then the body; yields the live timers and the new handle
TickerEffect(s, tm, h) ==
    LET cleared == TickerCleanup(tm, h)
    IN  IF s.isRunning
        THEN [timers |-> Append(cleared, setInterval(s)), interval |-> Len(cleared) + 1]
        ELSE [timers |-> cleared, interval |-> 0]

\* variant: the sample is stamped with the pre-tick time
TickSamplePreTickTime(c) ==
    [time      |-> c.time,
     distance  |-> JsAdd(c.distance, JsDiv(c.speed, Num(SecondsPerHour))),
     reference |-> JsDiv(JsMul(JsAdd(c.time, Num(1)), c.referenceSpeed),
                         Num(SecondsPerHour))]

\* the sample the interval callback appends, built from the closure c
TickSample(c) ==
    [time      |-> JsAdd(c.time, Num(1)),
     distance  |-> JsAdd(c.distance, JsDiv(c.speed, Num(SecondsPerHour))),
     reference |-> JsDiv(JsMul(JsAdd(c.time, Num(1)), c.referenceSpeed),
                         Num(SecondsPerHour))]

\* variant: the callback rebuilds the reference of every sample from the
\* reference speed it closes over
TickUpdateRewriteReference(s, c) ==
    [s EXCEPT !.time = JsAdd(s.time, Num(1)),
              !.distance = JsAdd(s.distance, JsDiv(c.speed, Num(SecondsPerHour))),
              !.chartData =
                  Append([k \in 1..Len(s.chartData) |->
                             [s.chartData[k] EXCEPT
                                 !.reference = JsDiv(JsMul(s.chartData[k].time, c.referenceSpeed),
                                                     Num(SecondsPerHour))]],
                         TickSample(c))]

\* the state after the three functional updates of the interval callback
TickUpdate(s, c) ==
    [s EXCEPT !.time = JsAdd(s.time, Num(1)),
              !.distance = JsAdd(s.distance, JsDiv(c.speed, Num(SecondsPerHour))),
              !.chartData = Append(s.chartData, TickSample(c))]

\* ------------------------------------------------------- estimator effect
\* variant: targetTime left out of the dependency list
EstimatorDepsNoTarget(s) ==
    <<s.speed, s.chartData, s.referenceSpeed, s.time, s.distance>>

\* dependency list of the estimator effect
EstimatorDeps(s) ==
    <<s.speed, s.chartData, s.referenceSpeed, s.targetTime, s.time, s.distance>>

\* variant: Math.floor in place of Math.round
CatchUpTimeOfFloor(s) ==
    IF JsGT(s.speed, s.referenceSpeed)
    THEN LET distanceDiff == JsSub(Last(s.chartData).reference, Last(s.chartData).distance)
             speedDiff == JsSub(s.speed, s.referenceSpeed)
             q == JsMul(JsDiv(distanceDiff, speedDiff), Num(SecondsPerHour))
             catchUpTimeSeconds == IF IsNum(q) THEN Num(q.n \div q.d) ELSE NaN
         IN  IF JsGT(catchUpTimeSeconds, Num(0)) THEN catchUpTimeSeconds ELSE Num(0)
    ELSE null

\* variant: the applicability test is speed >= referenceSpeed
CatchUpTimeOfGE(s) ==
    IF JsGT(s.speed, s.referenceSpeed) \/ s.speed = s.referenceSpeed
    THEN LET distanceDiff == JsSub(Last(s.chartData).reference, Last(s.chartData).distance)
             speedDiff == JsSub(s.speed, s.referenceSpeed)
             catchUpTimeSeconds ==
                 MathRound(JsMul(JsDiv(distanceDiff, speedDiff), Num(SecondsPerHour)))
         IN  IF JsGT(catchUpTimeSeconds, Num(0)) THEN catchUpTimeSeconds ELSE Num(0)
    ELSE null

\* value given to setCatchUpTime
CatchUpTimeOf(s) ==
    IF JsGT(s.speed, s.referenceSpeed)
    THEN LET distanceDiff == JsSub(Last(s.chartData).reference, Last(s.chartData).distance)
             speedDiff == JsSub(s.speed, s.referenceSpeed)
             catchUpTimeSeconds ==
                 MathRound(JsMul(JsDiv(distanceDiff, speedDiff), Num(SecondsPerHour)))
         IN  IF JsGT(catchUpTimeSeconds, Num(0)) THEN catchUpTimeSeconds ELSE Num(0)
    ELSE null

\* variant: the computed value is stored without the > 0 test
RequiredSpeedOfUnchecked(s) ==
    LET remainingTime == JsSub(s.targetTime, s.time)
    IN  IF JsGT(remainingTime, Num(0))
        THEN LET distanceToGo ==
                     JsSub(JsDiv(JsMul(s.referenceSpeed, s.targetTime), Num(SecondsPerHour)),
                           s.distance)
                 requiredSpeedValue ==
                     JsMul(JsDiv(distanceToGo, remainingTime), Num(SecondsPerHour))
             IN  IF IsNum(requiredSpeedValue) THEN requiredSpeedValue ELSE null
        ELSE null

\* variant: the goal distance is taken at the elapsed time, not the target time
RequiredSpeedOfElapsedGoal(s) ==
    LET remainingTime == JsSub(s.targetTime, s.time)
    IN  IF JsGT(remainingTime, Num(0))
        THEN LET distanceToGo ==
                     JsSub(JsDiv(JsMul(s.referenceSpeed, s.time), Num(SecondsPerHour)),
                           s.distance)
                 requiredSpeedValue ==
                     JsMul(JsDiv(distanceToGo, remainingTime), Num(SecondsPerHour))
             IN  IF JsGT(requiredSpeedValue, Num(0)) THEN requiredSpeedValue ELSE null
        ELSE null

\* value given to setRequiredSpeed
RequiredSpeedOf(s) ==
    LET remainingTime == JsSub(s.targetTime, s.time)
    IN  IF JsGT(remainingTime, Num(0))
        THEN LET distanceToGo ==
                     JsSub(JsDiv(JsMul(s.referenceSpeed, s.targetTime), Num(SecondsPerHour)),
                           s.distance)
                 requiredSpeedValue ==
                     JsMul(JsDiv(distanceToGo, remainingTime), Num(SecondsPerHour))
             IN  IF JsGT(requiredSpeedValue, Num(0)) THEN requiredSpeedValue ELSE null
        ELSE null

\* ------------------------------------------------------------------ render
\* Commit of the render of state s with live timers tm: the hooks take the
\* values of s, and each effect whose dependencies changed runs.
Commit(s, tm) ==
    LET te == IF TickerDeps(s) # tickerDeps
              THEN TickerEffect(s, tm, interval)
              ELSE [timers |-> tm, interval |-> interval]
        est == EstimatorDeps(s) # estimatorDeps
    IN  /\ isRunning' = s.isRunning
        /\ speed' = s.speed
        /\ referenceSpeed' = s.referenceSpeed
        /\ time' = s.time
        /\ distance' = s.distance
        /\ chartData' = s.chartData
        /\ targetTime' = s.targetTime
        /\ timers' = te.timers
        /\ interval' = te.interval
        /\ tickerDeps' = TickerDeps(s)
        /\ catchUpTime' = IF est THEN CatchUpTimeOf(s) ELSE catchUpTime
        /\ requiredSpeed' = IF est THEN RequiredSpeedOf(s) ELSE requiredSpeed
        /\ estimatorDeps' = EstimatorDeps(s)

\* the component right after mounting with hook values s: both effects have run once
Mounted(s) ==
    LET te == TickerEffect(s, <<>>, 0)
    IN  /\ isRunning = s.isRunning
        /\ speed = s.speed
        /\ referenceSpeed = s.referenceSpeed
        /\ time = s.time
        /\ distance = s.distance
        /\ chartData = s.chartData
        /\ targetTime = s.targetTime
        /\ timers = te.timers
        /\ interval = te.interval
        /\ tickerDeps = TickerDeps(s)
        /\ catchUpTime = CatchUpTimeOf(s)
        /\ requiredSpeed = RequiredSpeedOf(s)
        /\ estimatorDeps = EstimatorDeps(s)

\* the initial values of the useState hooks
InitialState ==
    [isRunning |-> FALSE, speed |-> Num(5), referenceSpeed |-> Num(6),
     time |-> Num(0), distance |-> Num(0),
     chartData |-> << [time |-> Num(0), distance |-> Num(0), reference |-> Num(0)] >>,
     targetTime |-> Num(3600)]

Init ==
    /\ Mounted(InitialState)
    /\ tickLog = <<>>
    /\ runs = 0
    /\ sinceTick = 0
    /\ pendingAtStop = FALSE
    /\ opsLeft = MaxOps

\* ----------------------------------------------------------------- actions
\* a control event whose handler leaves the state s to render
Control(s) ==
    /\ opsLeft > 0
    /\ opsLeft' = opsLeft - 1
    /\ Commit(s, timers)
    /\ UNCHANGED tickLog

\* variant: Start also resets the elapsed time
handleStartReset ==
    /\ ~isRunning
    /\ Control([State EXCEPT !.isRunning = TRUE, !.time = Num(0)])
    /\ runs' = runs + 1
    /\ sinceTick' = 0
    /\ pendingAtStop' = FALSE

\* Start button (shown while not running): setIsRunning(true)
handleStart ==
    /\ ~isRunning
    /\ Control([State EXCEPT !.isRunning = TRUE])
    /\ runs' = runs + 1
    /\ sinceTick' = 0
    /\ pendingAtStop' = FALSE

\* Stop button (shown while running): setIsRunning(false)
handleStop ==
    /\ isRunning
    /\ Control([State EXCEPT !.isRunning = FALSE])
    /\ sinceTick' = 0
    /\ pendingAtStop' = (\E i \in 1..Len(timers) : timers[i].left = 0)
    /\ UNCHANGED runs

\* variant: the new speed is stored without the floor at 0
handleSpeedChangeNoFloor(change) ==
    /\ Control([State EXCEPT !.speed = JsAdd(speed, change)])
    /\ UNCHANGED <<runs, sinceTick, pendingAtStop>>

\* speed -/+ buttons: setSpeed(prev => Math.max(0, prev + change))
handleSpeedChange(change) ==
    /\ Control([State EXCEPT !.speed = MathMax(Num(0), JsAdd(speed, change))])
    /\ UNCHANGED <<runs, sinceTick, pendingAtStop>>

\* reference -/+ buttons: setReferenceSpeed(prev => Math.max(0, prev + change))
handleReferenceSpeedChange(change) ==
    /\ Control([State EXCEPT !.referenceSpeed = MathMax(Num(0), JsAdd(referenceSpeed, change))])
    /\ UNCHANGED <<runs, sinceTick, pendingAtStop>>

\* reference-speed field: setReferenceSpeed(parseFloat(e.target.value))
referenceSpeedInput(text) ==
    /\ Control([State EXCEPT !.referenceSpeed = parseFloat(text)])
    /\ UNCHANGED <<runs, sinceTick, pendingAtStop>>

\* target - button: setTargetTime(prev => Math.max(60, prev - 60))
targetTimeDecrement ==
    /\ Control([State EXCEPT !.targetTime = MathMax(Num(60), JsSub(targetTime, Num(60)))])
    /\ UNCHANGED <<runs, sinceTick, pendingAtStop>>

\* target + button: setTargetTime(prev => prev + 60)
targetTimeIncrement ==
    /\ Control([State EXCEPT !.targetTime = JsAdd(targetTime, Num(60))])
    /\ UNCHANGED <<runs, sinceTick, pendingAtStop>>

\* target field (minutes): setTargetTime(parseInt(e.target.value) * 60)
targetTimeInput(text) ==
    /\ Control([State EXCEPT !.targetTime = JsMul(parseInt(text), Num(60))])
    /\ UNCHANGED <<runs, sinceTick, pendingAtStop>>

\* the callback of the due timer i runs; the repeating timer is re-armed
Tick(i) ==
    /\ timers[i].left = 0
    /\ Len(tickLog) < MaxTicks
    /\ Commit(TickUpdate(State, timers[i]), [timers EXCEPT ![i].left = IntervalMs])
    /\ tickLog' = Append(tickLog, [speed |-> speed, referenceSpeed |-> referenceSpeed,
                                   run |-> runs, catchUp |-> catchUpTime'])
    /\ sinceTick' = 0
    /\ UNCHANGED <<runs, pendingAtStop, opsLeft>>

\* wall-clock time passes, up to the next due time of a live timer
Elapse ==
    /\ timers # <<>>
    /\ \A i \in 1..Len(timers) : timers[i].left > 0
    /\ LET next == CHOOSE m \in {timers[i].left : i \in 1..Len(timers)} :
                       \A i \in 1..Len(timers) : m <= timers[i].left
           step == Min(Quantum, next)
       IN  /\ timers' = [i \in 1..Len(timers) |->
                            [timers[i] EXCEPT !.left = timers[i].left - step]]
           /\ sinceTick' = IF isRunning THEN sinceTick + step ELSE sinceTick
    /\ UNCHANGED <<hooks, interval, tickerDeps, estimatorDeps, tickLog, runs,
                   pendingAtStop, opsLeft>>

Next ==
    \/ handleStart
    \/ handleStop
    \/ \E change \in {Frac(-1, 10), Frac(1, 10)} : handleSpeedChange(change)
    \/ \E change \in {Frac(-1, 10), Frac(1, 10)} : handleReferenceSpeedChange(change)
    \/ \E text \in ReferenceTexts : referenceSpeedInput(text)
    \/ targetTimeDecrement
    \/ targetTimeIncrement
    \/ \E text \in TargetTexts : targetTimeInput(text)
    \/ \E i \in 1..Len(timers) : Tick(i)
    \/ Elapse

Spec == Init /\ [][Next]_vars

\* ------------------------------------------------------- sessions under way
\* A session under way: the component was started, n ticks fired at the
\* constant speed runSpeed against the constant reference runReference, it
\* was stopped, and the controls were then set to speed, referenceSpeed and
\* targetTime.  Every tick appended TickSample of the values then current.
SessionState(x) ==
    [isRunning |-> FALSE, speed |-> x.speed, referenceSpeed |-> x.referenceSpeed,
     time |-> Num(x.n),
     distance |-> JsDiv(JsMul(Num(x.n), x.runSpeed), Num(SecondsPerHour)),
     chartData |->
         [i \in 1..(x.n + 1) |->
             [time      |-> Num(i - 1),
              distance  |-> JsDiv(JsMul(Num(i - 1), x.runSpeed), Num(SecondsPerHour)),
              reference |-> JsDiv(JsMul(Num(i - 1), x.runReference), Num(SecondsPerHour))]],
     targetTime |-> x.targetTime]

\* the sessions under way that behaviours of SpecSession start from
Sessions ==
    { [n |-> 72, runSpeed |-> Num(0), runReference |-> Num(5),
       speed |-> Frac(59, 10), referenceSpeed |-> Num(5), targetTime |-> Num(3600)],
      [n |-> 1800, runSpeed |-> Num(4), runReference |-> Num(6),
       speed |-> Num(4), referenceSpeed |-> Frac(59, 10), targetTime |-> Num(3600)],
      [n |-> 1, runSpeed |-> Num(5), runReference |-> Num(6),
       speed |-> Num(0), referenceSpeed |-> Num(6), targetTime |-> Num(3600)],
      [n |-> 2, runSpeed |-> Num(5), runReference |-> Num(6),
       speed |-> Num(7), referenceSpeed |-> Num(6), targetTime |-> Num(3600)],
      [n |-> 58, runSpeed |-> Num(5), runReference |-> Num(6),
       speed |-> Num(5), referenceSpeed |-> Num(6), targetTime |-> Num(60)] }

InitSession ==
    /\ \E x \in Sessions : Mounted(SessionState(x))
    /\ tickLog = <<>>
    /\ runs = 1
    /\ sinceTick = 0
    /\ pendingAtStop = FALSE
    /\ opsLeft = MaxSessionOps

SpecSession == InitSession /\ [][Next]_vars

\* the sessions under way whose target time is at most MaxTicks ticks ahead
InitLive ==
    /\ \E x \in Sessions :
           /\ ~JsGT(JsSub(x.targetTime, Num(x.n)), Num(MaxTicks))
           /\ Mounted(SessionState(x))
    /\ tickLog = <<>>
    /\ runs = 1
    /\ sinceTick = 0
    /\ pendingAtStop = FALSE
    /\ opsLeft = MaxSessionOps

\* a timer is due: the guard of Tick, whose other conjuncts only assign the
\* next state, so that TickDue is ENABLED <<\E i : Tick(i)>>_vars
TickDue == \E i \in 1..Len(timers) : timers[i].left = 0 /\ Len(tickLog) < MaxTicks

\* such a session with the scheduling of the browser: wall-clock time passes
\* while a timer is pending (weak fairness of Elapse), and the callback of a
\* timer that stays due is run (weak fairness of Tick, written out)
SpecLive ==
    /\ InitLive
    /\ [][Next]_vars
    /\ WF_vars(Elapse)
    /\ ([]<>(~TickDue) \/ []<><<\E i \in 1..Len(timers) : Tick(i)>>_vars)

\* ================================================================== claims
\* a <= b: false when either side is NaN
JsLE(a, b) ==
    /\ IsNum(a)
    /\ IsNum(b)
    /\ LET g == GCD(a.d, b.d) IN a.n * (b.d \div g) <= b.n * (a.d \div g)

\* number of ticks fired in running period r
TicksInRun(r) == Cardinality({i \in 1..Len(tickLog) : tickLog[i].run = r})

\* sum over the first k ticks of (speed at that tick) / 3600
RECURSIVE DistanceOfTicks(_)
DistanceOfTicks(k) ==
    IF k = 0 THEN Num(0)
    ELSE JsAdd(DistanceOfTicks(k - 1), JsDiv(tickLog[k].speed, Num(3600)))

\* C1: while the session is stopped (before the first start, and between a
\* stop and the following start) no step changes elapsed time, cumulative
\* distance or the history, also when a timer firing was due at the stop.
C1_NoTickWhileStopped ==
    [][~isRunning => (time' = time /\ distance' = distance /\ chartData' = chartData)]_vars

\* C1 witness: stopped after a stop that was issued while a firing was due,
\* and wall-clock time has not been able to fire it since.
C1_Witness == ~isRunning /\ pendingAtStop /\ Len(tickLog) >= 1 /\ timers = <<>>

\* C2: while running, the next tick is never later than one interval after
\* the previous tick (or the start), whatever control events happen.
C2_TickEveryInterval == isRunning => sinceTick <= IntervalMs

\* C3: elapsed time is the number of ticks, cumulative distance is the sum
\* over the ticks of (speed in effect at the tick)/3600, and n*s/3600 when
\* every tick so far ran at the same speed s.
C3_DistanceIsSumOfTickSpeeds ==
    /\ time = Num(Len(tickLog))
    /\ distance = DistanceOfTicks(Len(tickLog))
    /\ \A s \in {tickLog[i].speed : i \in 1..Len(tickLog)} :
           (\A i \in 1..Len(tickLog) : tickLog[i].speed = s)
               => distance = JsDiv(JsMul(Num(Len(tickLog)), s), Num(3600))

\* C3 witness: two ticks at different speeds have been applied.
C3_Witness == Len(tickLog) >= 2 /\ tickLog[1].speed # tickLog[2].speed

\* C4: the history starts with the seed sample, holds one sample per tick
\* ever fired (1 + N1 + N2 + ... over the running periods), and its time
\* values strictly increase.
C4_HistoryShape ==
    /\ chartData[1] = [time |-> Num(0), distance |-> Num(0), reference |-> Num(0)]
    /\ \A i \in 1..Len(tickLog) : tickLog[i].run \in 1..runs
    /\ \/ runs = 0 /\ Len(chartData) = 1
       \/ runs = 1 /\ Len(chartData) = 1 + TicksInRun(1)
       \/ runs = 2 /\ Len(chartData) = 1 + TicksInRun(1) + TicksInRun(2)
       \/ runs > 2 /\ Len(chartData) = 1 + Len(tickLog)
    /\ \A i \in 1..(Len(chartData) - 1) : JsGT(chartData[i + 1].time, chartData[i].time)

\* C4 witness: ticks in a first running period, a stop, a restart, and ticks
\* in the second period.
C4_Witness == runs = 2 /\ TicksInRun(1) >= 1 /\ TicksInRun(2) >= 1

\* C5: the last sample of the history carries the current elapsed time and
\* the current cumulative distance.
C5_LastSampleIsPostTick ==
    /\ Last(chartData).time = time
    /\ Last(chartData).distance = distance

\* C5 witness: a second tick has been applied after a speed change.
C5_Witness ==
    /\ Len(chartData) >= 3
    /\ tickLog[1].speed # tickLog[2].speed
    /\ JsGT(distance, Num(0))

\* C6: the reference distance of a sample appended by a tick is (elapsed
\* time after the tick) * (reference speed at the tick) / 3600.
C6_ReferenceRecomputed ==
    [][Len(chartData') > Len(chartData)
         => Last(chartData').reference
              = JsDiv(JsMul(time', referenceSpeed'), Num(3600))]_vars

\* C6 witness: the reference speed changed between two ticks, so the last
\* sample's reference is not the previous one plus referenceSpeed/3600.
C6_Witness ==
    /\ Len(chartData) >= 3
    /\ IsNum(referenceSpeed)
    /\ Last(chartData).reference = JsDiv(JsMul(time, referenceSpeed), Num(3600))
    /\ Last(chartData).reference
         # JsAdd(chartData[Len(chartData) - 1].reference,
                 JsDiv(referenceSpeed, Num(3600)))

\* C7: the catch-up estimate is null whenever speed <= referenceSpeed and a
\* number whenever speed > referenceSpeed.
C7_CatchUpApplicability ==
    /\ JsLE(speed, referenceSpeed) => catchUpTime = null
    /\ JsGT(speed, referenceSpeed) => IsNum(catchUpTime)

\* C7 witness: after a tick, speed equals the reference speed and there is
\* no estimate.
C7_Witness ==
    /\ Len(chartData) >= 2
    /\ speed = referenceSpeed
    /\ catchUpTime = null

\* a >= b: false when either side is NaN
JsGE(a, b) == JsLE(b, a)

\* the latest sample's reference lead over the runner, in miles
ReferenceLead == JsSub(Last(chartData).reference, Last(chartData).distance)

\* C8: whenever speed > referenceSpeed the catch-up estimate is a
\* non-negative integer; when the latest sample's lead is a number it is the
\* integer nearest to lead / (speed - referenceSpeed) * 3600 (halves up),
\* clamped at 0, hence 0 when the runner is level or ahead; speed 6.0,
\* reference 5.0 and a lead of 0.1 give 360.
C8_CatchUpFormula ==
    JsGT(speed, referenceSpeed) =>
        LET q == JsMul(JsDiv(ReferenceLead, JsSub(speed, referenceSpeed)), Num(3600))
            k == catchUpTime.n
        IN  /\ IsNum(catchUpTime) /\ catchUpTime.d = 1 /\ k >= 0
            /\ IsNum(q) =>
                 /\ k > 0 => /\ (2 * k - 1) * q.d <= 2 * q.n
                             /\ 2 * q.n < (2 * k + 1) * q.d
                 /\ k = 0 => 2 * q.n < q.d
            /\ JsLE(ReferenceLead, Num(0)) => k = 0
            /\ (speed = Num(6) /\ referenceSpeed = Num(5) /\ ReferenceLead = Frac(1, 10))
                 => catchUpTime = Num(360)

\* C8 witness: the speed was raised to 6.0 against a reference of 5.0 that
\* leads by 0.1 mile, and the estimate reads 360.
C8_Witness ==
    /\ opsLeft < MaxSessionOps
    /\ speed = Num(6) /\ referenceSpeed = Num(5) /\ ReferenceLead = Frac(1, 10)
    /\ catchUpTime = Num(360)

\* the goal distance referenceSpeed * targetTime / 3600, in miles
GoalDistance == JsDiv(JsMul(referenceSpeed, targetTime), Num(3600))

\* C9: the required speed is null whenever elapsed time >= target time and
\* whenever the goal distance is already met; it is never zero or negative.
C9_RequiredSpeedApplicability ==
    /\ JsGE(time, targetTime) => requiredSpeed = null
    /\ JsGE(distance, GoalDistance) => requiredSpeed = null
    /\ requiredSpeed = null \/ JsGT(requiredSpeed, Num(0))

\* C9 witness: ticks have run past a goal that is already met, with time
\* remaining.
C9_Witness ==
    /\ Len(chartData) >= 2
    /\ JsGT(targetTime, time)
    /\ JsGE(distance, GoalDistance)
    /\ requiredSpeed = null

\* C10: whenever time remains and the goal is not met, the required speed r
\* is the number with r * (targetTime - time) / 3600 = goal distance -
\* distance; target 3600, reference 6.0, elapsed 1800 and distance 2.0 give 8.0.
C10_RequiredSpeedFormula ==
    /\ (JsGT(targetTime, time) /\ JsGT(GoalDistance, distance)) =>
           /\ IsNum(requiredSpeed)
           /\ JsDiv(JsMul(requiredSpeed, JsSub(targetTime, time)), Num(3600))
                = JsSub(GoalDistance, distance)
    /\ (targetTime = Num(3600) /\ referenceSpeed = Num(6)
          /\ time = Num(1800) /\ distance = Num(2)) => requiredSpeed = Num(8)

\* C10 witness: the reference was set to 6.0 at elapsed 1800 and distance 2.0
\* with a target of 3600, and the required speed reads 8.0.
C10_Witness ==
    /\ opsLeft < MaxSessionOps
    /\ targetTime = Num(3600) /\ referenceSpeed = Num(6)
    /\ time = Num(1800) /\ distance = Num(2)
    /\ requiredSpeed = Num(8)

C12_NoEstimateFromNaN ==
    /\ ~IsNum(referenceSpeed) => catchUpTime = null
    /\ (~IsNum(Last(chartData).reference) /\ JsGT(speed, referenceSpeed))
           => catchUpTime = null
    /\ (~IsNum(referenceSpeed) \/ ~IsNum(targetTime)) => requiredSpeed = null

\* C13: referenceSpeed is never negative, whichever control event set it.
C13_ReferenceSpeedNotNegative == ~JsGT(Num(0), referenceSpeed)

\* C14: after a step of the target-time + or - button, targetTime >= 60.
C14_TargetFloorAfterButtons ==
    [][(targetTimeIncrement \/ targetTimeDecrement) => JsGE(targetTime', Num(60))]_vars

\* C15: speed is never negative, a step that changes speed stores
\* max(0, speed + change) for a button change of +0.1 or -0.1, and a tick at
\* speed 0 adds 1 to the elapsed time, appends one sample, leaves the distance
\* unchanged and leaves each estimate null or a number.
C15_SpeedFloorAndZeroSpeedTick ==
    /\ []JsGE(speed, Num(0))
    /\ [][/\ speed' # speed =>
                \E change \in {Frac(-1, 10), Frac(1, 10)} :
                    speed' = MathMax(Num(0), JsAdd(speed, change))
          /\ (Len(tickLog') > Len(tickLog) /\ speed = Num(0)) =>
                /\ time' = JsAdd(time, Num(1))
                /\ Len(chartData') = Len(chartData) + 1
                /\ Last(chartData').time = time'
                /\ distance' = distance
                /\ Last(chartData').distance = distance
                /\ catchUpTime' = null \/ IsNum(catchUpTime')
                /\ requiredSpeed' = null \/ IsNum(requiredSpeed')]_vars

\* C15 witness: a tick has fired at speed 0 in a session that had covered
\* distance before: the distance is still that of the earlier tick at speed 5.
C15_Witness ==
    /\ speed = Num(0)
    /\ Len(tickLog) >= 1
    /\ Last(tickLog).speed = Num(0)
    /\ time = Num(2)
    /\ distance = Frac(5, 3600)
    /\ Len(chartData) = 3

\* C16: no step makes the cumulative distance smaller, and a newly appended
\* sample never has a smaller distance than the sample before it.
C16_DistanceNeverDecreases ==
    [][/\ JsGE(distance', distance)
       /\ Len(chartData') > Len(chartData) =>
              JsGE(Last(chartData').distance, Last(chartData).distance)]_vars

\* C16 witness: two ticks at different speeds, with a speed edit in between,
\* each appended a sample with a larger distance.
C16_Witness ==
    /\ Len(tickLog) = 2
    /\ tickLog[1].speed # tickLog[2].speed
    /\ JsGT(chartData[Len(chartData)].distance, chartData[Len(chartData) - 1].distance)
    /\ JsGT(chartData[Len(chartData) - 1].distance, chartData[Len(chartData) - 2].distance)
    /\ distance = Last(chartData).distance

\* C17: every step that is not a tick leaves elapsed time, distance and the
\* history unchanged (so Start resumes from the current elapsed time), and a
\* target-time edit changes nothing but targetTime and requiredSpeed.
C17_OnlyTickChangesProgress ==
    [][/\ Len(tickLog') = Len(tickLog) => UNCHANGED <<time, distance, chartData>>
       /\ (targetTimeDecrement \/ targetTimeIncrement
              \/ \E text \in TargetTexts : targetTimeInput(text)) =>
              UNCHANGED <<isRunning, speed, referenceSpeed, time, distance, chartData,
                          catchUpTime, timers, interval>>]_vars

\* C17 witness: the session was stopped after a tick and started again, and
\* the elapsed time is still the number of ticks.
C17_Witness ==
    /\ isRunning
    /\ runs = 2
    /\ Len(tickLog) >= 1
    /\ time = Num(Len(tickLog))
    /\ Len(chartData) = Len(tickLog) + 1

\* C18: every step leaves the old history as a prefix of the new one.
C18_HistoryAppendOnly ==
    [][/\ Len(chartData') >= Len(chartData)
       /\ SubSeq(chartData', 1, Len(chartData)) = chartData]_vars

\* C18 witness: the reference speed was changed between two ticks, and the
\* sample of the first tick still holds the reference of the old speed.
C18_Witness ==
    /\ Len(chartData) = 3
    /\ referenceSpeed = Frac(61, 10)
    /\ chartData[2].reference = Frac(6, 3600)
    /\ chartData[3].reference = Frac(2 * 61, 36000)

\* C19: at every moment at most one timer is live, one is live exactly when
\* the session is running, and it is the one whose handle the effect holds.
C19_OneTimerIffRunning ==
    /\ Len(timers) <= 1
    /\ isRunning <=> Len(timers) = 1
    /\ interval = Len(timers)

\* C19 witness: running with one timer after the timer was re-installed by a
\* speed change, a reference-speed change and a tick.
C19_Witness ==
    /\ isRunning
    /\ Len(timers) = 1
    /\ Len(tickLog) >= 1
    /\ speed # Num(5)
    /\ referenceSpeed # Num(6)
    /\ timers[1].speed = speed
    /\ timers[1].time = time

\* C20: for two consecutive ticks fired at the same speed and the same
\* reference speed, with speed > referenceSpeed, the catch-up estimate stored
\* after the second tick is max(0, the estimate stored after the first - 1).
C20_CatchUpCountsDown ==
    \A k \in 2..Len(tickLog) :
        (/\ tickLog[k].speed = tickLog[k - 1].speed
         /\ tickLog[k].referenceSpeed = tickLog[k - 1].referenceSpeed
         /\ JsGT(tickLog[k].speed, tickLog[k].referenceSpeed))
            => tickLog[k].catchUp = MathMax(Num(0), JsSub(tickLog[k - 1].catchUp, Num(1)))

\* C20 witness: three ticks at speed 7 against reference speed 6, from 2/3600
\* miles behind, counted the estimate down 1, 0 and, once ahead, 0 again.
C20_Witness ==
    /\ Len(tickLog) = 3
    /\ \A k \in 1..3 : tickLog[k].speed = Num(7) /\ tickLog[k].referenceSpeed = Num(6)
    /\ tickLog[1].catchUp = Num(1)
    /\ tickLog[2].catchUp = Num(0)
    /\ catchUpTime = Num(0)
    /\ JsGT(distance, Last(chartData).reference)

\* C21: across a tick (which leaves referenceSpeed and targetTime unchanged)
\* with the required speed a number before and after, the estimate is
\* unchanged when speed equals it, strictly larger when speed is lower, and
\* strictly smaller when speed is higher.
C21_RequiredSpeedFixedPoint ==
    [][(/\ Len(tickLog') > Len(tickLog)
        /\ referenceSpeed' = referenceSpeed
        /\ targetTime' = targetTime
        /\ IsNum(requiredSpeed)
        /\ IsNum(requiredSpeed')) =>
           /\ speed = requiredSpeed => requiredSpeed' = requiredSpeed
           /\ JsGT(requiredSpeed, speed) => JsGT(requiredSpeed', requiredSpeed)
           /\ JsGT(speed, requiredSpeed) => JsGT(requiredSpeed, requiredSpeed')]_vars

\* C21 witness: the reference speed was set to the runner's speed, two ticks
\* fired at that speed, and the required speed is still that speed.
C21_Witness ==
    /\ Len(tickLog) >= 2
    /\ \A k \in 1..Len(tickLog) : tickLog[k].speed = speed
    /\ referenceSpeed = speed
    /\ IsNum(requiredSpeed)
    /\ requiredSpeed = speed
    /\ JsGT(distance, Num(0))

\* the target times a session can hold that are at most MaxTicks ticks ahead
\* of its elapsed time: multiples of 60 s, and NaN from a cleared field
LiveTargets == {NaN} \cup {Num(60 * k) : k \in -3..3}

\* the target T is not further ahead than the ticks the bound still allows
WithinTicks(T) == ~JsGT(JsSub(T, time), Num(MaxTicks - Len(tickLog)))

====
